---------------------------- MODULE Spec2Model ----------------------------
(* Model of two pieces of the jenkins-library excerpt:                      *)
(*   cmd/pythonBuild_generated.go            the pythonBuild command glue   *)
(*   pkg/documentation/generator/parameters.go  the parameter documentation *)
(* The command is modelled as one process whose position is pc; the         *)
(* documentation generator as operators applied to a step description.     *)
EXTENDS Integers, Sequences, FiniteSets, TLC

VARIABLES
  env,               \* os.Getenv of the PIPER_<name> variables
  flags,             \* cmd.Flags(): the flags registered on the cobra command
  metadata,          \* metadata := pythonBuildMetadata()
  pc,                \* position of the command process
  generalConfig,     \* GeneralConfig.HookConfig and the vault client, as resolved by PrepareConfig
  errorCategory,     \* log.SetErrorCategory / log.GetErrorCategory
  registeredSecrets, \* log.RegisterSecret
  hooks,             \* log.RegisterHook, in registration order
  validated,         \* validation.ValidateStruct(stepConfig) was called
  preRunErr,         \* what PreRunE returned
  splunkClient,      \* splunkClient: "nil" or "set"
  errorCode,         \* stepTelemetryData.ErrorCode
  exitHandlers,      \* handlers registered with log.DeferExitHandler
  deferred,          \* the deferred calls of Run, last registered last
  panicking,         \* Run is unwinding because pythonBuild panicked
  cpe,               \* commonPipelineEnvironment.custom.buildSettingsInfo
  events,            \* what Run and the exit handler did, in order
  stepData,          \* the generator's *config.StepData
  stepParameterNames,\* the generator's package variable stepParameterNames
  before,            \* Parameters as they were before the last sort
  lastOp,            \* the generator operation applied last
  docs               \* the last two calls of createParametersSection: the step data given, the markdown returned

cmdVars == <<env, flags, metadata, pc, generalConfig, errorCategory, registeredSecrets,
             hooks, validated, preRunErr, splunkClient, errorCode, exitHandlers,
             deferred, panicking, cpe, events>>
docVars == <<stepData, stepParameterNames, before, lastOp, docs>>
vars == <<cmdVars, docVars>>

NIL == "nil"

RECURSIVE SeqToSet(_)
SeqToSet(s) == IF s = <<>> THEN {} ELSE {Head(s)} \cup SeqToSet(Tail(s))

(***************************************************************************)
(* cmd/pythonBuild_generated.go                                            *)
(***************************************************************************)

PiperEnvNames == {"PIPER_targetRepositoryPassword", "PIPER_targetRepositoryUser",
                  "PIPER_targetRepositoryURL", "PIPER_buildSettingsInfo"}

EnvValues == {"", "v"}

Getenv(name) == env[name]

\* One registered flag: the pflag registration call, the flag name and its default.
Flag(call, name, def) == [call |-> call, name |-> name, def |-> def]

\* addPythonBuildFlags with the default of targetRepositoryURL not read from the environment.
addPythonBuildFlagsNoEnvDefault ==
  << Flag("StringSliceVar", "buildFlags", "[]"),
     Flag("StringSliceVar", "setupFlags", "[]"),
     Flag("BoolVar", "createBOM", "false"),
     Flag("BoolVar", "publish", "false"),
     Flag("StringVar", "targetRepositoryPassword", Getenv("PIPER_targetRepositoryPassword")),
     Flag("StringVar", "targetRepositoryUser", Getenv("PIPER_targetRepositoryUser")),
     Flag("StringVar", "targetRepositoryURL", ""),
     Flag("StringVar", "buildSettingsInfo", Getenv("PIPER_buildSettingsInfo")),
     Flag("StringVar", "virutalEnvironmentName", "piperBuild-env"),
     Flag("StringVar", "requirementsFilePath", "requirements.txt") >>

addPythonBuildFlags ==
  << Flag("StringSliceVar", "buildFlags", "[]"),
     Flag("StringSliceVar", "setupFlags", "[]"),
     Flag("BoolVar", "createBOM", "false"),
     Flag("BoolVar", "publish", "false"),
     Flag("StringVar", "targetRepositoryPassword", Getenv("PIPER_targetRepositoryPassword")),
     Flag("StringVar", "targetRepositoryUser", Getenv("PIPER_targetRepositoryUser")),
     Flag("StringVar", "targetRepositoryURL", Getenv("PIPER_targetRepositoryURL")),
     Flag("StringVar", "buildSettingsInfo", Getenv("PIPER_buildSettingsInfo")),
     Flag("StringVar", "virutalEnvironmentName", "piperBuild-env"),
     Flag("StringVar", "requirementsFilePath", "requirements.txt") >>

\* One config.StepParameters of the metadata: Name, Type and Default.
MetaParam(name, type, def) == [Name |-> name, Type |-> type, Default |-> def]

pythonBuildMetadata ==
  [ Parameters |->
      << MetaParam("buildFlags", "[]string", "[]"),
         MetaParam("setupFlags", "[]string", "[]"),
         MetaParam("createBOM", "bool", "false"),
         MetaParam("publish", "bool", "false"),
         MetaParam("targetRepositoryPassword", "string", Getenv("PIPER_targetRepositoryPassword")),
         MetaParam("targetRepositoryUser", "string", Getenv("PIPER_targetRepositoryUser")),
         MetaParam("targetRepositoryURL", "string", Getenv("PIPER_targetRepositoryURL")),
         MetaParam("buildSettingsInfo", "string", Getenv("PIPER_buildSettingsInfo")),
         MetaParam("virutalEnvironmentName", "string", "piperBuild-env"),
         MetaParam("requirementsFilePath", "string", "requirements.txt") >>,
    Outputs |-> [ Name |-> "commonPipelineEnvironment",
                  Parameters |-> {"custom/buildSettingsInfo"} ] ]

\* content of persist: filepath.Join(category, name) of every entry.
persistContent == << "custom/buildSettingsInfo" >>

Event(ev, data) == [ev |-> ev, data |-> data]

\* persist: one SetResourceParameter per content entry; an error is logged and counted.
RECURSIVE persistLoop(_, _)
persistLoop(content, failing) ==
  IF content = <<>> THEN <<>>
  ELSE << Event("SetResourceParameter", Head(content)) >>
       \o (IF Head(content) \in failing
             THEN << Event("log.Error", "Error persisting piper environment.") >>
             ELSE <<>>)
       \o persistLoop(Tail(content), failing)

persist(failing) ==
  persistLoop(persistContent, failing)
  \o (IF SeqToSet(persistContent) \cap failing # {}
        THEN << Event("log.Error", "failed to persist Piper environment") >>
        ELSE <<>>)

\* handler returning as soon as persist reported an error.
handlerStopsOnPersistError(failing, publishFails) ==
  << Event("handler", "begin") >>
  \o persist(failing)
  \o (IF SeqToSet(persistContent) \cap failing # {}
        THEN <<>>
        ELSE << Event("RemoveVaultSecretFiles", ""),
                Event("SetData", errorCode),
                Event("LogStepTelemetryData", errorCode) >>
             \o (IF generalConfig.SplunkDsn # ""
                   THEN << Event("splunk.Initialize", "Dsn"), Event("splunk.Send", errorCode) >>
                   ELSE <<>>)
             \o (IF generalConfig.ProdCriblEndpoint # ""
                   THEN << Event("splunk.Initialize", "ProdCriblEndpoint"), Event("splunk.Send", errorCode) >>
                   ELSE <<>>)
             \o (IF generalConfig.GCPEnabled
                   THEN << Event("gcp.Publish", errorCode) >>
                        \o (IF publishFails THEN << Event("log.Warn", "event publish failed") >> ELSE <<>>)
                   ELSE <<>>))
  \o << Event("handler", "end") >>

\* The closure handler of Run: what it does, given which SetResourceParameter
\* calls fail and whether the GCP publish fails.
handler(failing, publishFails) ==
  << Event("handler", "begin") >>
  \o persist(failing)
  \o << Event("RemoveVaultSecretFiles", ""),
        Event("SetData", errorCode),
        Event("LogStepTelemetryData", errorCode) >>
  \o (IF generalConfig.SplunkDsn # ""
        THEN << Event("splunk.Initialize", "Dsn"), Event("splunk.Send", errorCode) >>
        ELSE <<>>)
  \o (IF generalConfig.ProdCriblEndpoint # ""
        THEN << Event("splunk.Initialize", "ProdCriblEndpoint"), Event("splunk.Send", errorCode) >>
        ELSE <<>>)
  \o (IF generalConfig.GCPEnabled
        THEN << Event("gcp.Publish", errorCode) >>
             \o (IF publishFails THEN << Event("log.Warn", "event publish failed") >> ELSE <<>>)
        ELSE <<>>)
  \o << Event("handler", "end") >>

NoConfig == [SentryDsn |-> "", SplunkDsn |-> "", ProdCriblEndpoint |-> "",
             GCPEnabled |-> FALSE, Vault |-> FALSE]

Configs == [SentryDsn : {"", "dsn"}, SplunkDsn : {"", "dsn"}, ProdCriblEndpoint : {"", "cribl"},
            GCPEnabled : BOOLEAN, Vault : BOOLEAN]

CmdIdle ==
  /\ flags = <<>>
  /\ metadata = NIL
  /\ pc = "start"
  /\ generalConfig = NoConfig
  /\ errorCategory = "undefined"
  /\ registeredSecrets = {}
  /\ hooks = <<>>
  /\ validated = FALSE
  /\ preRunErr = NIL
  /\ splunkClient = NIL
  /\ errorCode = ""
  /\ exitHandlers = 0
  /\ deferred = <<>>
  /\ panicking = FALSE
  /\ cpe = ""
  /\ events = <<>>

\* PythonBuildCommand(): capture the metadata, build the command, register the flags.
PythonBuildCommand ==
  /\ pc = "start"
  /\ metadata' = pythonBuildMetadata
  /\ flags' = addPythonBuildFlags
  /\ pc' = "constructed"
  /\ UNCHANGED <<env, generalConfig, errorCategory, registeredSecrets, hooks, validated,
                 preRunErr, splunkClient, errorCode, exitHandlers, deferred, panicking,
                 cpe, events>>

Outcome(isErr) == IF isErr THEN "error" ELSE "ok"

\* preRunE going on to validation.New after PrepareConfig failed, and returning its error then.
preRunENoReturn(getwdErr, prepErr, cfg, ans, newErr, validateErr) ==
  LET start == [err |-> NIL, hooks |-> <<>>, category |-> errorCategory, cfg |-> generalConfig,
                secrets |-> {}, splunk |-> splunkClient, validated |-> FALSE,
                events |-> << Event("os.Getwd", Outcome(getwdErr)) >>]
      prepared == [start EXCEPT
                     !.hooks = << "fatalHook" >>,
                     !.events = @ \o << Event("log.RegisterHook", "fatalHook"),
                                        Event("PrepareConfig", Outcome(prepErr)) >>]
      sentry == cfg.SentryDsn # ""
      splunk == cfg.SplunkDsn # "" \/ cfg.ProdCriblEndpoint # ""
      configured == [prepared EXCEPT
                      !.cfg = cfg,
                      !.secrets = {"TargetRepositoryPassword", "TargetRepositoryUser"},
                      !.hooks = @ \o (IF sentry THEN << "sentryHook" >> ELSE <<>>)
                                  \o (IF splunk THEN << "logCollector" >> ELSE <<>>)
                                  \o (IF ans = "registered" THEN << "ansHook" >> ELSE <<>>),
                      !.splunk = IF splunk THEN "set" ELSE splunkClient,
                      !.events = @ \o << Event("log.RegisterSecret", "TargetRepositoryPassword"),
                                         Event("log.RegisterSecret", "TargetRepositoryUser") >>
                                   \o (IF sentry THEN << Event("log.RegisterHook", "sentryHook") >> ELSE <<>>)
                                   \o (IF splunk THEN << Event("log.RegisterHook", "logCollector") >> ELSE <<>>)
                                   \o << Event("log.RegisterANSHookIfConfigured", ans) >>
                                   \o (IF ans = "error"
                                         THEN << Event("log.Warn", "failed to set up SAP Alert Notification Service log hook") >>
                                         ELSE <<>>)
                                   \o << Event("validation.New", Outcome(newErr)) >>]
      validating == [configured EXCEPT
                       !.validated = TRUE,
                       !.events = @ \o << Event("ValidateStruct", Outcome(validateErr)) >>]
  IN IF getwdErr THEN [start EXCEPT !.err = "errGetwd"]
     ELSE IF prepErr
       THEN [configured EXCEPT !.err = "errPrepareConfig", !.category = "configuration"]
     ELSE IF newErr THEN [configured EXCEPT !.err = "errValidationNew"]
     ELSE IF validateErr
       THEN [validating EXCEPT !.err = "errValidateStruct", !.category = "configuration"]
     ELSE validating

\* The results of PreRunE given the outcome of each call it makes: the error of
\* os.Getwd, of PrepareConfig (which resolves cfg), of RegisterANSHookIfConfigured
\* (ans: "none", "registered" or "error"), of validation.New and of ValidateStruct.
\* events lists the calls made, in order.
preRunE(getwdErr, prepErr, cfg, ans, newErr, validateErr) ==
  LET start == [err |-> NIL, hooks |-> <<>>, category |-> errorCategory, cfg |-> generalConfig,
                secrets |-> {}, splunk |-> splunkClient, validated |-> FALSE,
                events |-> << Event("os.Getwd", Outcome(getwdErr)) >>]
      prepared == [start EXCEPT
                     !.hooks = << "fatalHook" >>,
                     !.events = @ \o << Event("log.RegisterHook", "fatalHook"),
                                        Event("PrepareConfig", Outcome(prepErr)) >>]
      sentry == cfg.SentryDsn # ""
      splunk == cfg.SplunkDsn # "" \/ cfg.ProdCriblEndpoint # ""
      configured == [prepared EXCEPT
                      !.cfg = cfg,
                      !.secrets = {"TargetRepositoryPassword", "TargetRepositoryUser"},
                      !.hooks = @ \o (IF sentry THEN << "sentryHook" >> ELSE <<>>)
                                  \o (IF splunk THEN << "logCollector" >> ELSE <<>>)
                                  \o (IF ans = "registered" THEN << "ansHook" >> ELSE <<>>),
                      !.splunk = IF splunk THEN "set" ELSE splunkClient,
                      !.events = @ \o << Event("log.RegisterSecret", "TargetRepositoryPassword"),
                                         Event("log.RegisterSecret", "TargetRepositoryUser") >>
                                   \o (IF sentry THEN << Event("log.RegisterHook", "sentryHook") >> ELSE <<>>)
                                   \o (IF splunk THEN << Event("log.RegisterHook", "logCollector") >> ELSE <<>>)
                                   \o << Event("log.RegisterANSHookIfConfigured", ans) >>
                                   \o (IF ans = "error"
                                         THEN << Event("log.Warn", "failed to set up SAP Alert Notification Service log hook") >>
                                         ELSE <<>>)
                                   \o << Event("validation.New", Outcome(newErr)) >>]
      validating == [configured EXCEPT
                       !.validated = TRUE,
                       !.events = @ \o << Event("ValidateStruct", Outcome(validateErr)) >>]
  IN IF getwdErr THEN [start EXCEPT !.err = "errGetwd"]
     ELSE IF prepErr
       THEN [prepared EXCEPT !.err = "errPrepareConfig", !.category = "configuration"]
     ELSE IF newErr THEN [configured EXCEPT !.err = "errValidationNew"]
     ELSE IF validateErr
       THEN [validating EXCEPT !.err = "errValidateStruct", !.category = "configuration"]
     ELSE validating

\* cobra calls PreRunE once the command is constructed.
PreRunE ==
  /\ pc = "constructed"
  /\ \E getwdErr, prepErr, newErr, validateErr \in BOOLEAN, cfg \in Configs,
        ans \in {"none", "registered", "error"} :
       LET r == preRunE(getwdErr, prepErr, cfg, ans, newErr, validateErr)
       IN /\ preRunErr' = r.err
          /\ hooks' = hooks \o r.hooks
          /\ errorCategory' = r.category
          /\ generalConfig' = r.cfg
          /\ registeredSecrets' = registeredSecrets \cup r.secrets
          /\ splunkClient' = r.splunk
          /\ validated' = r.validated
          /\ events' = events \o r.events
          /\ pc' = IF r.err = NIL THEN "prerun_ok" ELSE "prerun_failed"
  /\ UNCHANGED <<env, flags, metadata, errorCode, exitHandlers, deferred, panicking, cpe>>

\* ErrorCode preset to success.
initialErrorCodeSuccess == "0"

\* stepTelemetryData.ErrorCode as Run sets it before the step runs.
initialErrorCode == "1"

\* Run up to the call of pythonBuild: the vault client's deferred revocation, the
\* handler registered as exit handler and deferred, telemetryClient.Initialize.
RunEnter ==
  /\ pc = "prerun_ok"
  /\ deferred' = (IF generalConfig.Vault THEN << "MustRevokeToken" >> ELSE <<>>) \o << "handler" >>
  /\ errorCode' = initialErrorCode
  /\ exitHandlers' = exitHandlers + 1
  /\ events' = events \o << Event("telemetry.Initialize", "pythonBuild") >>
  /\ pc' = "build"
  /\ UNCHANGED <<env, flags, metadata, generalConfig, errorCategory, registeredSecrets, hooks,
                 validated, preRunErr, splunkClient, panicking, cpe>>

\* The call pythonBuild(stepConfig, &stepTelemetryData, &commonPipelineEnvironment):
\* it returns, ends the process through a fatal log entry, or panics; it may have
\* filled the common pipeline environment before.
PythonBuild ==
  /\ pc = "build"
  /\ \E outcome \in {"return", "fatal", "panic"}, info \in {"", "settings"} :
       /\ cpe' = info
       /\ events' = events \o << Event("pythonBuild", outcome) >>
       /\ pc' = CASE outcome = "return" -> "success"
                  [] outcome = "fatal"  -> "exit"
                  [] outcome = "panic"  -> "unwind"
       /\ panicking' = (outcome = "panic")
  /\ UNCHANGED <<env, flags, metadata, generalConfig, errorCategory, registeredSecrets, hooks,
                 validated, preRunErr, splunkClient, errorCode, exitHandlers, deferred>>

\* pythonBuild returned: ErrorCode "0", the SUCCESS log entry, and Run returns.
RunSuccess ==
  /\ pc = "success"
  /\ errorCode' = "0"
  /\ events' = events \o << Event("log.Info", "SUCCESS") >>
  /\ pc' = "unwind"
  /\ UNCHANGED <<env, flags, metadata, generalConfig, errorCategory, registeredSecrets, hooks,
                 validated, preRunErr, splunkClient, exitHandlers, deferred, panicking, cpe>>

\* Run unwinds (return or panic): the deferred handler() runs.
DeferredHandler ==
  /\ pc = "unwind"
  /\ deferred # <<>>
  /\ deferred[Len(deferred)] = "handler"
  /\ \E failing \in SUBSET SeqToSet(persistContent), publishFails \in BOOLEAN :
       events' = events \o handler(failing, publishFails)
  /\ deferred' = SubSeq(deferred, 1, Len(deferred) - 1)
  /\ UNCHANGED <<env, flags, metadata, pc, generalConfig, errorCategory, registeredSecrets, hooks,
                 validated, preRunErr, splunkClient, errorCode, exitHandlers, panicking, cpe>>

\* Run unwinds: the deferred vaultClient.MustRevokeToken() runs; when the
\* revocation fails it ends the process through a fatal log entry.
DeferredMustRevokeToken ==
  /\ pc = "unwind"
  /\ deferred # <<>>
  /\ deferred[Len(deferred)] = "MustRevokeToken"
  /\ \E revoked \in BOOLEAN :
       /\ events' = events \o << Event("MustRevokeToken", IF revoked THEN "ok" ELSE "fatal") >>
       /\ pc' = IF revoked THEN "unwind" ELSE "exit"
  /\ deferred' = SubSeq(deferred, 1, Len(deferred) - 1)
  /\ UNCHANGED <<env, flags, metadata, generalConfig, errorCategory, registeredSecrets, hooks,
                 validated, preRunErr, splunkClient, errorCode, exitHandlers, panicking, cpe>>

\* Run has run its deferred calls: it returns to cobra, or the panic ends the process.
RunReturn ==
  /\ pc = "unwind"
  /\ deferred = <<>>
  /\ pc' = IF panicking THEN "crashed" ELSE "returned"
  /\ UNCHANGED <<env, flags, metadata, generalConfig, errorCategory, registeredSecrets, hooks,
                 validated, preRunErr, splunkClient, errorCode, exitHandlers, deferred,
                 panicking, cpe, events>>

\* A fatal log entry: the handlers registered with log.DeferExitHandler run, then
\* the process exits; deferred calls do not run.
FatalExit ==
  /\ pc = "exit"
  /\ \E failing \in SUBSET SeqToSet(persistContent), publishFails \in BOOLEAN :
       events' = events \o (IF exitHandlers > 0 THEN handler(failing, publishFails) ELSE <<>>)
  /\ pc' = "exited"
  /\ UNCHANGED <<env, flags, metadata, generalConfig, errorCategory, registeredSecrets, hooks,
                 validated, preRunErr, splunkClient, errorCode, exitHandlers, deferred,
                 panicking, cpe>>

(***************************************************************************)
(* pkg/documentation/generator/parameters.go                               *)
(* Markdown is modelled as a sequence of rows, a row as the sequence of     *)
(* the pieces that its format string joins; the backquote of the format    *)
(* strings is written ' here.                                              *)
(***************************************************************************)

vaultBadge == "![Vault](https://img.shields.io/badge/-Vault-lightgrey)"
jenkinsOnlyBadge == "![Jenkins only](https://img.shields.io/badge/-Jenkins%20only-yellowgreen)"
secretBadge == "![Secret](https://img.shields.io/badge/-Secret-yellowgreen)"
systemTrustBadge == "![System Trust](https://img.shields.io/badge/-System%20Trust-lightblue)"
deprecatedBadge == "![deprecated](https://img.shields.io/badge/-deprecated-red)"

jenkinsParams == {"containerCommand", "containerName", "containerShell", "dockerVolumeBind",
                  "dockerWorkspace", "sidecarReadyCommand", "sidecarWorkspace", "stashContent"}

\* The bytes of a parameter name, which strings.Compare compares.
Bytes(name) ==
  CASE
       name = "buildFlags" -> <<98, 117, 105, 108, 100, 70, 108, 97, 103, 115>>
    [] name = "buildSettingsInfo" -> <<98, 117, 105, 108, 100, 83, 101, 116, 116, 105, 110, 103, 115, 73, 110, 102, 111>>
    [] name = "publish" -> <<112, 117, 98, 108, 105, 115, 104>>
    [] name = "script" -> <<115, 99, 114, 105, 112, 116>>
    [] name = "verbose" -> <<118, 101, 114, 98, 111, 115, 101>>
    [] name = "stashContent" -> <<115, 116, 97, 115, 104, 67, 111, 110, 116, 101, 110, 116>>
    [] name = "dockerEnvVars" -> <<100, 111, 99, 107, 101, 114, 69, 110, 118, 86, 97, 114, 115>>
    [] name = "targetRepositoryPassword" -> <<116, 97, 114, 103, 101, 116, 82, 101, 112, 111, 115, 105, 116, 111, 114, 121, 80, 97, 115, 115, 119, 111, 114, 100>>
    [] name = "gitSshKeyCredentialsId" -> <<103, 105, 116, 83, 115, 104, 75, 101, 121, 67, 114, 101, 100, 101, 110, 116, 105, 97, 108, 115, 73, 100>>
    [] name = "virutalEnvironmentName" -> <<118, 105, 114, 117, 116, 97, 108, 69, 110, 118, 105, 114, 111, 110, 109, 101, 110, 116, 78, 97, 109, 101>>

\* strings.ToLower of a parameter name.
ToLower(name) ==
  CASE
       name = "buildFlags" -> "buildflags"
    [] name = "buildSettingsInfo" -> "buildsettingsinfo"
    [] name = "publish" -> "publish"
    [] name = "script" -> "script"
    [] name = "verbose" -> "verbose"
    [] name = "stashContent" -> "stashcontent"
    [] name = "dockerEnvVars" -> "dockerenvvars"
    [] name = "targetRepositoryPassword" -> "targetrepositorypassword"
    [] name = "gitSshKeyCredentialsId" -> "gitsshkeycredentialsid"
    [] name = "virutalEnvironmentName" -> "virutalenvironmentname"
    [] name = "targetRepositoryCredentialsId" -> "targetrepositorycredentialsid"
    [] name = "repositoryVaultSecretName" -> "repositoryvaultsecretname"

\* strings.Compare on the bytes of two strings: -1, 0 or 1.
RECURSIVE CompareBytes(_, _)
CompareBytes(a, b) ==
  IF a = <<>> THEN (IF b = <<>> THEN 0 ELSE -1)
  ELSE IF b = <<>> THEN 1
  ELSE IF Head(a) < Head(b) THEN -1
  ELSE IF Head(a) > Head(b) THEN 1
  ELSE CompareBytes(Tail(a), Tail(b))

Compare(a, b) == CompareBytes(Bytes(a), Bytes(b))

\* A Go slice: nil, or its elements.
NilSlice == [nil |-> TRUE, items |-> <<>>]
Slice(items) == [nil |-> FALSE, items |-> items]

\* strings.Join of rows' pieces with a separator piece.
RECURSIVE Join(_, _)
Join(parts, sep) ==
  IF parts = <<>> THEN <<>>
  ELSE IF Len(parts) = 1 THEN Head(parts)
  ELSE Head(parts) \o << sep >> \o Join(Tail(parts), sep)

\* lessMandatory taking Mandatory alone for the mandatory status.
lessMandatoryFlagOnly(pi, pj) ==
  IF pi.Mandatory = pj.Mandatory
    THEN Compare(pi.Name, pj.Name) < 0
  ELSE IF pi.Mandatory THEN TRUE
  ELSE FALSE

\* The less function of sortStepParameters(stepData, true).
lessMandatory(pi, pj) ==
  IF (pi.Mandatory \/ Len(pi.MandatoryIf) > 0) = (pj.Mandatory \/ Len(pj.MandatoryIf) > 0)
    THEN Compare(pi.Name, pj.Name) < 0
  ELSE IF pi.Mandatory \/ Len(pi.MandatoryIf) > 0 THEN TRUE
  ELSE FALSE

\* lessName with <= for <.
lessNameOrEqual(pi, pj) == Compare(pi.Name, pj.Name) <= 0

\* The less function of sortStepParameters(stepData, false).
lessName(pi, pj) == Compare(pi.Name, pj.Name) < 0

less(considerMandatory, pi, pj) ==
  IF considerMandatory THEN lessMandatory(pi, pj) ELSE lessName(pi, pj)

\* sort.SliceStable on a slice of at most 20 elements is one insertion sort:
\* element i moves down while it is less than the element below it.
RECURSIVE insertDown(_, _, _)
insertDown(s, j, considerMandatory) ==
  IF j > 1 /\ less(considerMandatory, s[j], s[j - 1])
    THEN insertDown([s EXCEPT ![j] = s[j - 1], ![j - 1] = s[j]], j - 1, considerMandatory)
    ELSE s

RECURSIVE insertionSort(_, _, _)
insertionSort(s, i, considerMandatory) ==
  IF i > Len(s) THEN s
  ELSE insertionSort(insertDown(s, i, considerMandatory), i + 1, considerMandatory)

SliceStable(s, considerMandatory) == insertionSort(s, 2, considerMandatory)

sortStepParameters(sd, considerMandatory) ==
  IF ~sd.Parameters.nil
    THEN [sd EXCEPT !.Parameters.items = SliceStable(@, considerMandatory)]
    ELSE sd

\* checkParameterInfo accepting every parameter as execution environment parameter.
checkParameterInfoAnyEnvironment(furtherInfo, stepParam, executionEnvironment) ==
  IF (stepParam /\ ~executionEnvironment) \/ executionEnvironment
    THEN [info |-> furtherInfo, err |-> NIL]
  ELSE IF executionEnvironment
    THEN [info |-> <<>>, err |-> "step parameter not relevant as execution environment parameter"]
  ELSE [info |-> <<>>, err |-> "execution environment parameter not relevant as step parameter"]

\* checkParameterInfo: the further information and the error ("nil": no error).
checkParameterInfo(furtherInfo, stepParam, executionEnvironment) ==
  IF (stepParam /\ ~executionEnvironment) \/ (~stepParam /\ executionEnvironment)
    THEN [info |-> furtherInfo, err |-> NIL]
  ELSE IF executionEnvironment
    THEN [info |-> <<>>, err |-> "step parameter not relevant as execution environment parameter"]
  ELSE [info |-> <<>>, err |-> "execution environment parameter not relevant as step parameter"]

\* param.GetReference(refType) != nil
HasReference(param, refType) ==
  \E i \in DOMAIN param.ResourceRef : param.ResourceRef[i].Type = refType

\* The " ([`name`](#name))" pieces parameterFurtherInfo adds per secret resource.
RECURSIVE secretReferences(_)
secretReferences(refs) ==
  IF refs = <<>> THEN <<>>
  ELSE (IF Head(refs).Type = "secret"
          THEN << " (['", Head(refs).Name, "'](#", ToLower(Head(refs).Name), "))" >>
          ELSE <<>>)
       \o secretReferences(Tail(refs))

\* The part of parameterFurtherInfo that handles a step parameter found in the list.
stepParameterInfo(param, executionEnvironment) ==
  LET furtherInfo == IF param.DeprecationMessage # "" THEN << deprecatedBadge >> ELSE <<>>
      isVaultSecret == HasReference(param, "vaultSecret") \/ HasReference(param, "vaultSecretFile")
      isSystemTrustSecret == HasReference(param, "systemTrustSecret")
      secretInfo ==
        IF isVaultSecret /\ isSystemTrustSecret
          THEN << " ", vaultBadge, " ", systemTrustBadge, " ", secretBadge,
                  " pass via ENV, Vault, System Trust or Jenkins credentials" >>
        ELSE IF isVaultSecret
          THEN << " ", vaultBadge, " ", secretBadge, " pass via ENV, Vault or Jenkins credentials" >>
        ELSE << secretBadge, " pass via ENV or Jenkins credentials" >>
  IN IF param.Secret
       THEN checkParameterInfo(furtherInfo \o secretInfo \o secretReferences(param.ResourceRef),
                               TRUE, executionEnvironment)
       ELSE checkParameterInfo(furtherInfo, TRUE, executionEnvironment)

\* The first parameter of the list with the given name, as a sequence of length 0 or 1.
RECURSIVE firstNamed(_, _)
firstNamed(s, name) ==
  IF s = <<>> THEN <<>>
  ELSE IF Head(s).Name = name THEN << Head(s) >>
  ELSE firstNamed(Tail(s), name)

parameterFurtherInfo(paramName, sd, executionEnvironment) ==
  IF paramName = "verbose"
    THEN checkParameterInfo(<< "activates debug output" >>, TRUE, executionEnvironment)
  ELSE IF paramName = "script"
    THEN checkParameterInfo(<< jenkinsOnlyBadge, " reference to Jenkins main pipeline script" >>,
                            TRUE, executionEnvironment)
  ELSE IF paramName \notin stepParameterNames
    THEN IF \E i \in DOMAIN sd.Secrets :
              sd.Secrets[i].Name = paramName /\ sd.Secrets[i].Type = "jenkins"
           THEN checkParameterInfo(
                  << jenkinsOnlyBadge,
                     " id of credentials ([using credentials](https://www.jenkins.io/doc/book/using/using-credentials/))" >>,
                  TRUE, executionEnvironment)
         ELSE IF paramName \in jenkinsParams
           THEN checkParameterInfo(<< jenkinsOnlyBadge >>, FALSE, executionEnvironment)
         ELSE checkParameterInfo(<<>>, FALSE, executionEnvironment)
  ELSE LET found == firstNamed(sd.Parameters.items, paramName)
       IN IF found # <<>>
            THEN stepParameterInfo(found[1], executionEnvironment)
            ELSE checkParameterInfo(<<>>, TRUE, executionEnvironment)

\* The "- [`name`](#name)=`value`" piece of each condition of MandatoryIf.
mandatoryConditions(mandatoryIf) ==
  [i \in DOMAIN mandatoryIf |->
     << "- ['", mandatoryIf[i].Name, "'](#", ToLower(mandatoryIf[i].Name), ")='",
        mandatoryIf[i].Value, "'" >>]

parameterMandatoryInformation(param, furtherInfo) ==
  LET mandatoryIf == param.MandatoryIf
      mandatory == IF Len(mandatoryIf) > 0 THEN TRUE ELSE param.Mandatory
      mandatoryInfo ==
        IF Len(mandatoryIf) > 0
          THEN furtherInfo
               \o (IF Len(furtherInfo) > 0 THEN << "<br />" >> ELSE <<>>)
               \o Join(<< << "mandatory in case of:" >> >> \o mandatoryConditions(mandatoryIf),
                       "<br />")
          ELSE furtherInfo
  IN [mandatory |-> mandatory,
      mandatoryString |-> IF Len(mandatoryInfo) > 0 THEN "**(yes)**" ELSE "**yes**",
      mandatoryInfo |-> mandatoryInfo]

\* The rows createParameterOverview adds for the parameters from index i on.
RECURSIVE overviewRows(_, _, _)
overviewRows(sd, i, executionEnvironment) ==
  IF i > Len(sd.Parameters.items) THEN <<>>
  ELSE LET param == sd.Parameters.items[i]
           r == parameterFurtherInfo(param.Name, sd, executionEnvironment)
           m == parameterMandatoryInformation(param, r.info)
       IN (IF r.err = NIL
             THEN << << "| [", param.Name, "](#", ToLower(param.Name), ") | ",
                        IF m.mandatory THEN m.mandatoryString ELSE "no", " | " >>
                     \o m.mandatoryInfo \o << " |" >> >>
             ELSE <<>>)
          \o overviewRows(sd, i + 1, executionEnvironment)

createParameterOverview(sd, executionEnvironment) ==
  << << "| Name | Mandatory | Additional information |" >>,
     << "| ---- | --------- | ---------------------- |" >> >>
  \o overviewRows(sd, 1, executionEnvironment)
  \o << << "" >> >>

\* formatDefault; order is the order in which range visits the entries of a
\* map default (Go leaves the iteration order of a map unspecified).
\* A default is [kind, val]: kind "nil", "string", "map" or "other" (any type the
\* switch leaves to its default case), val the set of <<key, value>> entries
\* (key "" for a default that is no map).
formatDefault(param, names, order) ==
  IF param.Default.kind = "nil"
    THEN IF param.Name \in names THEN << "'$PIPER_", param.Name, "' (if set)" >> ELSE <<>>
  ELSE IF param.Default.kind = "map"
    THEN Join([i \in DOMAIN order |-> << "'", order[i][1], "': '", order[i][2], "'" >>], "<br />")
  ELSE IF param.Default.kind = "string"
    THEN LET v == (CHOOSE e \in param.Default.val : TRUE)[2]
         IN IF v = "" THEN << "''''" >> ELSE << "'", v, "'" >>
  ELSE << "'", (CHOOSE e \in param.Default.val : TRUE)[2], "'" >>

aliasList(aliases) ==
  IF Len(aliases) = 0 THEN << "-" >>
  ELSE IF Len(aliases) = 1
    THEN << "'", aliases[1].Name, "'" >>
         \o (IF aliases[1].Deprecated THEN << " (**deprecated**)" >> ELSE <<>>)
  ELSE Join([i \in DOMAIN aliases |->
               << "- '", aliases[i].Name, "'" >>
               \o (IF aliases[i].Deprecated THEN << " (**deprecated**)" >> ELSE <<>>)],
            "<br />")

possibleValueList(possibleValues) ==
  IF Len(possibleValues.items) = 0 THEN <<>>
  ELSE Join([i \in DOMAIN possibleValues.items |-> << "- '", possibleValues.items[i], "'" >>],
            "<br />")

scopeDetails(scope) ==
  << "<ul>",
     "<li>", IF "PARAMETERS" \in scope THEN "&#9746;" ELSE "&#9744;", " parameter</li>",
     "<li>", IF "GENERAL" \in scope THEN "&#9746;" ELSE "&#9744;", " general</li>",
     "<li>", IF "STEPS" \in scope THEN "&#9746;" ELSE "&#9744;", " steps</li>",
     "<li>", IF "STAGES" \in scope THEN "&#9746;" ELSE "&#9744;", " stages</li>",
     "</ul>" >>

\* config.VaultRootPaths
VaultRootPaths == << "$(vaultPath)", "$(vaultBasePath)/$(vaultPipelineName)",
                     "$(vaultBasePath)/GROUP-SECRETS" >>

\* Rows' pieces joined without a separator.
RECURSIVE Concat(_)
Concat(parts) == IF parts = <<>> THEN <<>> ELSE Head(parts) \o Concat(Tail(parts))

addVaultResourceDetails(resource, resourceDetails) ==
  resourceDetails
  \o << "<br/>Vault resource:<br />",
        "&nbsp;&nbsp;name: '", resource.Name, "'<br />",
        "&nbsp;&nbsp;default value: '", resource.Default, "'<br />",
        "<br/>Vault paths: <br />",
        "<ul>" >>
  \o Concat([i \in DOMAIN VaultRootPaths |->
               << "<li>'", VaultRootPaths[i], "/", resource.Default, "'</li>" >>])
  \o << "</ul>" >>

addSystemTrustResourceDetails(resource, resourceDetails) ==
  resourceDetails
  \o << "<br/>System Trust resource:<br />",
        "&nbsp;&nbsp;name: '", resource.Name, "'<br />",
        "&nbsp;&nbsp;value: '", resource.Default, "'<br />" >>

\* The loop of resourceReferenceDetails from the references refs on.
RECURSIVE resourceReferenceLoop(_, _)
resourceReferenceLoop(refs, resourceDetails) ==
  IF refs = <<>> THEN resourceDetails
  ELSE LET resource == Head(refs)
       IN IF resource.Name = "commonPipelineEnvironment"
            THEN resourceReferenceLoop(Tail(refs),
                   resourceDetails
                   \o << "_commonPipelineEnvironment_:<br />",
                         "&nbsp;&nbsp;reference to: '", resource.Param, "'<br />" >>)
          ELSE IF resource.Type = "secret"
            THEN resourceReferenceLoop(Tail(refs),
                   resourceDetails
                   \o << "Jenkins credential id:<br />" >>
                   \o (IF Len(resource.Aliases) > 0 THEN << "&nbsp;&nbsp;aliases:<br />" >> ELSE <<>>)
                   \o Concat([i \in DOMAIN resource.Aliases |->
                                << "&nbsp;&nbsp;- '", resource.Aliases[i].Name, "'",
                                   IF resource.Aliases[i].Deprecated THEN " (**Deprecated**)" ELSE "",
                                   "<br />" >>])
                   \o << "&nbsp;&nbsp;id: ['", resource.Name, "'](#", ToLower(resource.Name),
                         ")<br />" >>
                   \o (IF resource.Param # ""
                         THEN << "&nbsp;&nbsp;reference to: '", resource.Param, "'<br />" >>
                         ELSE <<>>))
          ELSE IF resource.Type = "vaultSecret" \/ resource.Type = "vaultSecretFile"
            THEN resourceReferenceLoop(Tail(refs), addVaultResourceDetails(resource, resourceDetails))
          ELSE IF resource.Type = "systemTrustSecret"
            THEN resourceReferenceLoop(Tail(refs),
                                       addSystemTrustResourceDetails(resource, resourceDetails))
          ELSE resourceReferenceLoop(Tail(refs), resourceDetails)

resourceReferenceDetails(resourceRef) ==
  IF Len(resourceRef) = 0 THEN << "none" >> ELSE resourceReferenceLoop(resourceRef, <<>>)

\* The rows createParameterDetails adds for one parameter.
parameterDetails(param, order) ==
  LET m == parameterMandatoryInformation(param, <<>>)
      mandatoryString == IF m.mandatory /\ Len(m.mandatoryInfo) > 0
                           THEN m.mandatoryInfo ELSE << m.mandatoryString >>
  IN << << "#### ", param.Name >> >>
     \o (IF param.Name \notin stepParameterNames /\ param.Name \in jenkinsParams
           THEN << << "**Jenkins-specific:** Used for proper environment setup." >> >>
           ELSE <<>>)
     \o << << IF Len(param.LongDescription) > 0 THEN param.LongDescription ELSE param.Description >>,
           << "[back to overview](#parameters)" >>,
           << "| Scope | Details |" >>,
           << "| ---- | --------- |" >> >>
     \o (IF param.DeprecationMessage # ""
           THEN << << "| Deprecated | ", param.DeprecationMessage, " |" >> >>
           ELSE <<>>)
     \o << << "| Aliases | " >> \o aliasList(param.Aliases) \o << " |" >>,
           << "| Type | '", param.Type, "' |" >>,
           << "| Mandatory | " >> \o (IF m.mandatory THEN mandatoryString ELSE << "no" >>) \o << " |" >>,
           << "| Default | " >> \o formatDefault(param, stepParameterNames, order) \o << " |" >> >>
     \o (IF ~param.PossibleValues.nil
           THEN << << "| Possible values | " >> \o possibleValueList(param.PossibleValues) \o << " |" >> >>
           ELSE <<>>)
     \o << << "| Secret | ", IF param.Secret THEN "**yes**" ELSE "no", " |" >>,
           << "| Configuration scope | " >> \o scopeDetails(param.Scope) \o << " |" >>,
           << "| Resource references | " >> \o resourceReferenceDetails(param.ResourceRef) \o << " |" >>,
           << "" >> >>

\* The rows createParameterDetails adds for one secret.
secretDetails(secret) ==
  << << "#### ", secret.Name >> >>
  \o (IF secret.Name \notin stepParameterNames /\ secret.Name \in jenkinsParams
        THEN << << "**Jenkins-specific:** Used for proper environment setup. See *[using credentials](https://www.jenkins.io/doc/book/using/using-credentials/)* for details." >> >>
        ELSE <<>>)
  \o << << secret.Description >>,
        << "[back to overview](#parameters)" >>,
        << "| Scope | Details |" >>,
        << "| ---- | --------- |" >>,
        << "| Aliases | " >> \o aliasList(secret.Aliases) \o << " |" >>,
        << "| Type | '", "string", "' |" >>,
        << "| Configuration scope | " >>
          \o scopeDetails({"PARAMETERS", "GENERAL", "STEPS", "STAGES"}) \o << " |" >>,
        << "" >> >>

RECURSIVE parameterDetailsFrom(_, _, _)
parameterDetailsFrom(params, i, iter) ==
  IF i > Len(params) THEN <<>>
  ELSE parameterDetails(params[i], iter[i]) \o parameterDetailsFrom(params, i + 1, iter)

RECURSIVE secretDetailsFrom(_, _)
secretDetailsFrom(secrets, i) ==
  IF i > Len(secrets) THEN <<>>
  ELSE secretDetails(secrets[i]) \o secretDetailsFrom(secrets, i + 1)

\* iter[i]: the order in which the map default of parameter i is ranged over.
createParameterDetails(sd, iter) ==
  parameterDetailsFrom(sd.Parameters.items, 1, iter) \o secretDetailsFrom(sd.Secrets, 1)

\* createParametersSection without the second sort.
createParametersSectionOneSort(sd, iter) ==
  LET byMandatory == sortStepParameters(sd, TRUE)
      byName == byMandatory
  IN [stepData |-> byName,
      doc |-> << << "## Parameters" >>, << "### Overview - Step" >> >>
              \o createParameterOverview(byMandatory, FALSE)
              \o << << "### Overview - Execution Environment" >>,
                    << "!!! note Orchestrator-specific only" >> >>
              \o createParameterOverview(byMandatory, TRUE)
              \o << << "### Details" >> >>
              \o createParameterDetails(byName, iter)]

\* createParametersSection: the markdown returned and the step data as it leaves it.
createParametersSection(sd, iter) ==
  LET byMandatory == sortStepParameters(sd, TRUE)
      byName == sortStepParameters(byMandatory, FALSE)
  IN [stepData |-> byName,
      doc |-> << << "## Parameters" >>, << "### Overview - Step" >> >>
              \o createParameterOverview(byMandatory, FALSE)
              \o << << "### Overview - Execution Environment" >>,
                    << "!!! note Orchestrator-specific only" >> >>
              \o createParameterOverview(byMandatory, TRUE)
              \o << << "### Details" >> >>
              \o createParameterDetails(byName, iter)]

(***************************************************************************)
(* The step descriptions the generator is run on                           *)
(***************************************************************************)

MaxLen == 3
MaxDocLen == 2

\* A config.StepParameters with the fields the generator reads.
StepParameter(name, mandatory, mandatoryIf) ==
  [Name |-> name, Description |-> "", LongDescription |-> "", Mandatory |-> mandatory,
   MandatoryIf |-> mandatoryIf, Secret |-> FALSE, DeprecationMessage |-> "",
   Default |-> [kind |-> "nil", val |-> {}], Type |-> "string", Aliases |-> <<>>,
   Scope |-> {"PARAMETERS", "STAGES", "STEPS"}, PossibleValues |-> NilSlice,
   ResourceRef |-> <<>>]

ResourceReference(name, type, default) ==
  [Name |-> name, Type |-> type, Param |-> "", Default |-> default, Aliases |-> <<>>]

PublishCondition == << [Name |-> "publish", Value |-> "true"] >>

\* Parameters that differ in what the sort reads: Name, Mandatory, MandatoryIf.
SortParameters ==
  { StepParameter(n, mc[1], mc[2]) :
      n \in {"buildFlags", "buildSettingsInfo", "publish"},
      mc \in { <<FALSE, <<>> >>, <<TRUE, <<>> >>, <<FALSE, PublishCondition>> } }

\* Parameters that differ in what the rendering reads.
DocParameters ==
  { [StepParameter("publish", FALSE, <<>>) EXCEPT
       !.Type = "bool", !.Default = [kind |-> "other", val |-> {<<"", "false">>}]],
    StepParameter("script", TRUE, <<>>),
    StepParameter("stashContent", FALSE, <<>>),
    StepParameter("verbose", FALSE, <<>>),
    [StepParameter("dockerEnvVars", FALSE, <<>>) EXCEPT
       !.Type = "map[string]string",
       !.Default = [kind |-> "map", val |-> {<<"HOME", "/tmp">>, <<"LANG", "C">>}]],
    [StepParameter("targetRepositoryPassword", FALSE, PublishCondition) EXCEPT
       !.Secret = TRUE, !.DeprecationMessage = "use the vault secret",
       !.ResourceRef = << ResourceReference("targetRepositoryCredentialsId", "secret", ""),
                          ResourceReference("repositoryVaultSecretName", "vaultSecret", "repository") >>],
    StepParameter("gitSshKeyCredentialsId", FALSE, <<>>),
    [StepParameter("virutalEnvironmentName", FALSE, <<>>) EXCEPT
       !.Default = [kind |-> "string", val |-> {<<"", "piperBuild-env">>}]] }

Names == { p.Name : p \in SortParameters \cup DocParameters }

JenkinsSecret ==
  [Name |-> "gitSshKeyCredentialsId", Type |-> "jenkins",
   Description |-> "Jenkins credentials ID of the ssh key", Aliases |-> <<>>]

RepositorySecret ==
  [Name |-> "targetRepositoryCredentialsId", Type |-> "jenkins",
   Description |-> "Jenkins credentials ID of the target repository", Aliases |-> <<>>]

\* The lists of at most n parameters of a set, each described by its place in the list.
ParameterLists(kinds, n) ==
  { [i \in DOMAIN f |-> [f[i] EXCEPT !.Description = "parameter " \o ToString(i)]] :
      f \in UNION { [1..k -> kinds] : k \in 0..n } }

InitDoc ==
  /\ env = [n \in PiperEnvNames |-> ""]
  /\ CmdIdle
  /\ \/ /\ stepData \in { [Parameters |-> p, Secrets |-> <<>>] :
                            p \in {NilSlice} \cup { Slice(l) : l \in ParameterLists(SortParameters, MaxLen) } }
        /\ stepParameterNames = {}
     \/ /\ stepData \in { [Parameters |-> Slice(l), Secrets |-> s] :
                            l \in ParameterLists(DocParameters, MaxDocLen),
                            s \in {<<>>, << JenkinsSecret >>, << RepositorySecret, JenkinsSecret >>} }
        /\ stepParameterNames \in { {"publish", "targetRepositoryPassword"},
                                    {"publish", "targetRepositoryPassword", "dockerEnvVars",
                                     "virutalEnvironmentName", "buildFlags"} }
  /\ before = stepData.Parameters
  /\ lastOp = "none"
  /\ docs = <<>>

\* A call of sortStepParameters on the step data as given.
SortStepParameters ==
  /\ lastOp = "none"
  /\ \E considerMandatory \in BOOLEAN :
       /\ stepData' = sortStepParameters(stepData, considerMandatory)
       /\ lastOp' = IF considerMandatory THEN "sortMandatory" ELSE "sortName"
  /\ before' = stepData.Parameters
  /\ UNCHANGED <<stepParameterNames, docs>>

\* The orders in which range may visit the entries of a parameter's map default.
rangeOrders(param) ==
  IF param.Default.kind = "map"
    THEN LET S == param.Default.val
         IN { f \in [1..Cardinality(S) -> S] : \A e \in S : \E i \in DOMAIN f : f[i] = e }
    ELSE { <<>> }

\* A call of createParametersSection on the step data, as given or as an
\* earlier call left it.
CreateParametersSection ==
  /\ lastOp \in {"none", "section"}
  /\ LET sorted == sortStepParameters(sortStepParameters(stepData, TRUE), FALSE).Parameters.items
     IN \E iter \in [DOMAIN sorted -> UNION { rangeOrders(sorted[i]) : i \in DOMAIN sorted }] :
          /\ \A i \in DOMAIN sorted : iter[i] \in rangeOrders(sorted[i])
          /\ LET r == createParametersSection(stepData, iter)
             IN /\ stepData' = r.stepData
                /\ docs' = (IF docs = <<>> THEN <<>> ELSE << docs[Len(docs)] >>)
                            \o << [given |-> stepData, doc |-> r.doc] >>
  /\ before' = stepData.Parameters
  /\ lastOp' = "section"
  /\ UNCHANGED stepParameterNames

(***************************************************************************)
(* Specifications                                                          *)
(***************************************************************************)

DocIdle ==
  /\ stepData = [Parameters |-> NilSlice, Secrets |-> <<>>]
  /\ stepParameterNames = {}
  /\ before = NilSlice
  /\ lastOp = "none"
  /\ docs = <<>>

InitCmd ==
  /\ env \in [PiperEnvNames -> EnvValues]
  /\ CmdIdle
  /\ DocIdle

NextCmd ==
  \/ (PythonBuildCommand /\ UNCHANGED docVars)
  \/ (PreRunE /\ UNCHANGED docVars)
  \/ (RunEnter /\ UNCHANGED docVars)
  \/ (PythonBuild /\ UNCHANGED docVars)
  \/ (RunSuccess /\ UNCHANGED docVars)
  \/ (DeferredHandler /\ UNCHANGED docVars)
  \/ (DeferredMustRevokeToken /\ UNCHANGED docVars)
  \/ (RunReturn /\ UNCHANGED docVars)
  \/ (FatalExit /\ UNCHANGED docVars)

SpecCmd == InitCmd /\ [][NextCmd]_vars

NextDoc ==
  \/ (SortStepParameters /\ UNCHANGED cmdVars)
  \/ (CreateParametersSection /\ UNCHANGED cmdVars)

SpecDoc == InitDoc /\ [][NextDoc]_vars

(***************************************************************************)
(* Properties of the pythonBuild command (under SpecCmd)                   *)
(***************************************************************************)

EventIndices(ev) == { i \in DOMAIN events : events[i].ev = ev }

HandlerBegins == { i \in DOMAIN events : events[i] = Event("handler", "begin") }

\* The events of the handler run that begins at index b.
HandlerRun(b) ==
  LET ends == { e \in DOMAIN events : e > b /\ events[e] = Event("handler", "end") }
      e == CHOOSE x \in ends : \A y \in ends : x <= y
  IN SubSeq(events, b, e)

ProcessEnded == pc \in {"returned", "exited", "crashed"}

ReturnedBefore(i) == \E j \in 1..(i - 1) : events[j] = Event("pythonBuild", "return")

\* C1: in every execution of Run pythonBuild is called exactly once, after
\* telemetryClient.Initialize, and the exit handler runs exactly once afterwards,
\* never twice and never not at all.
C1_HandlerRunsExactlyOnce ==
  /\ Cardinality(EventIndices("pythonBuild")) <= 1
  /\ \A i \in EventIndices("pythonBuild") :
       \E j \in 1..(i - 1) : events[j].ev = "telemetry.Initialize"
  /\ \A b \in HandlerBegins : \E j \in 1..(b - 1) : events[j].ev = "pythonBuild"
  /\ Cardinality(HandlerBegins) <= 1
  /\ ProcessEnded => Cardinality(EventIndices("pythonBuild")) = 1 /\ Cardinality(HandlerBegins) = 1

\* The events that carry the telemetry data's ErrorCode.
TelemetryEvents == {"SetData", "LogStepTelemetryData", "splunk.Send", "gcp.Publish"}

\* C2: the telemetry data the exit handler sends carries ErrorCode "0" if and only
\* if pythonBuild returned normally before the handler ran, and "1" otherwise.
C2_ErrorCodeTellsNormalReturn ==
  \A i \in DOMAIN events :
    events[i].ev \in TelemetryEvents =>
      /\ events[i].data \in {"0", "1"}
      /\ (events[i].data = "0") <=> ReturnedBefore(i)

\* A fatal exit of pythonBuild after which the handler sent ErrorCode "1".
C2_Witness ==
  /\ pc = "exited"
  /\ \E i \in DOMAIN events : events[i] = Event("pythonBuild", "fatal")
  /\ \E i \in DOMAIN events : events[i] = Event("SetData", "1")

IsHook(e) == e.ev = "log.RegisterHook" /\ e.data \in {"sentryHook", "logCollector"}

\* C6: a PrepareConfig error is returned with the error category configuration and
\* nothing after PrepareConfig happens; a validation error is returned with the
\* category configuration; PreRunE returns nil only when os.Getwd, PrepareConfig,
\* validation.New and ValidateStruct all succeeded.
C6_PreRunEErrors ==
  /\ (\E i \in DOMAIN events : events[i] = Event("PrepareConfig", "error")) =>
       /\ preRunErr = "errPrepareConfig"
       /\ pc = "prerun_failed"
       /\ errorCategory = "configuration"
       /\ registeredSecrets = {}
       /\ \A i \in DOMAIN events :
            /\ events[i].ev \notin {"log.RegisterSecret", "validation.New", "ValidateStruct"}
            /\ ~IsHook(events[i])
       /\ ~validated
       /\ splunkClient = NIL
  /\ (\E i \in DOMAIN events : events[i] = Event("ValidateStruct", "error")) =>
       /\ preRunErr = "errValidateStruct"
       /\ pc = "prerun_failed"
       /\ errorCategory = "configuration"
  /\ (pc \notin {"start", "constructed", "prerun_failed"}) =>
       /\ preRunErr = NIL
       /\ \A call \in {"os.Getwd", "PrepareConfig", "validation.New", "ValidateStruct"} :
            \E i \in DOMAIN events : events[i] = Event(call, "ok")

\* PreRunE has returned the error of PrepareConfig.
C6_Witness ==
  /\ pc = "prerun_failed"
  /\ preRunErr = "errPrepareConfig"
  /\ \E i \in DOMAIN events : events[i] = Event("PrepareConfig", "error")

\* The pflag registration call that declares a flag of the metadata type.
FlagCallOfType(type) ==
  CASE type = "[]string" -> "StringSliceVar"
    [] type = "bool"     -> "BoolVar"
    [] type = "string"   -> "StringVar"
    [] OTHER             -> "unknown"

\* C8: the flags and the metadata agree: one flag per metadata parameter and no
\* other, with its name, a flag type that matches the metadata type, and its
\* default (the PIPER_<name> lookups included); and what persist writes to the
\* common pipeline environment is what the commonPipelineEnvironment output declares.
C8_FlagsAgreeWithMetadata ==
  (pc # "start") =>
    /\ \A i \in DOMAIN metadata.Parameters :
         LET p == metadata.Parameters[i]
             same == { k \in DOMAIN flags : flags[k].name = p.Name }
         IN /\ Cardinality(same) = 1
            /\ \A k \in same : /\ flags[k].call = FlagCallOfType(p.Type)
                               /\ flags[k].def = p.Default
    /\ \A k \in DOMAIN flags :
         \E i \in DOMAIN metadata.Parameters : metadata.Parameters[i].Name = flags[k].name
    /\ metadata.Outputs.Name = "commonPipelineEnvironment"
    /\ \A b \in HandlerBegins :
         LET run == HandlerRun(b)
         IN { run[i].data : i \in { k \in DOMAIN run : run[k].ev = "SetResourceParameter" } }
              = metadata.Outputs.Parameters

\* The command was built with all PIPER_ variables set, and the handler has persisted.
C8_Witness ==
  /\ \A n \in PiperEnvNames : env[n] # ""
  /\ pc = "returned"
  /\ \E i \in DOMAIN events : events[i].ev = "SetResourceParameter"

\* The steps of one handler run that are no log entries about a failure.
RECURSIVE WithoutLogs(_)
WithoutLogs(run) ==
  IF run = <<>> THEN <<>>
  ELSE (IF Head(run).ev \in {"log.Error", "log.Warn"} THEN <<>> ELSE << Head(run) >>)
       \o WithoutLogs(Tail(run))

\* The steps of the handler in the order C9 gives them, for ErrorCode c.
StepsInOrder(c) ==
  << Event("handler", "begin"),
     Event("SetResourceParameter", "custom/buildSettingsInfo"),
     Event("RemoveVaultSecretFiles", ""),
     Event("SetData", c),
     Event("LogStepTelemetryData", c) >>
  \o (IF generalConfig.SplunkDsn # ""
        THEN << Event("splunk.Initialize", "Dsn"), Event("splunk.Send", c) >> ELSE <<>>)
  \o (IF generalConfig.ProdCriblEndpoint # ""
        THEN << Event("splunk.Initialize", "ProdCriblEndpoint"), Event("splunk.Send", c) >> ELSE <<>>)
  \o (IF generalConfig.GCPEnabled THEN << Event("gcp.Publish", c) >> ELSE <<>>)
  \o << Event("handler", "end") >>

\* C9: the exit handler persists, removes the vault secret files, sets and logs the
\* telemetry data, sends to Splunk via Dsn and via ProdCriblEndpoint when each is
\* set, then publishes to GCP when enabled; a failure of persist or of the publish
\* is only logged: it skips no later step and leaves the reported ErrorCode alone.
C9_HandlerStepsInOrder ==
  \A b \in HandlerBegins :
    WithoutLogs(HandlerRun(b)) = StepsInOrder(IF ReturnedBefore(b) THEN "0" ELSE "1")

\* A handler run in which persist and the publish failed and Splunk was sent to twice.
C9_Witness ==
  \E b \in HandlerBegins :
    LET run == HandlerRun(b)
    IN /\ \E i \in DOMAIN run : run[i].ev = "log.Error"
       /\ \E i \in DOMAIN run : run[i].ev = "log.Warn"
       /\ Cardinality({ i \in DOMAIN run : run[i].ev = "splunk.Send" }) = 2
       /\ \E i \in DOMAIN run : run[i].ev = "gcp.Publish"

(***************************************************************************)
(* Properties of the documentation generator (under SpecDoc)               *)
(***************************************************************************)

\* The parameter names in increasing byte order, as a reference for the sort.
AlphabeticalOrder ==
  << "buildFlags", "buildSettingsInfo", "dockerEnvVars", "gitSshKeyCredentialsId", "publish",
     "script", "stashContent", "targetRepositoryPassword", "verbose", "virutalEnvironmentName" >>

Rank(name) == CHOOSE i \in DOMAIN AlphabeticalOrder : AlphabeticalOrder[i] = name

IsMandatory(p) == p.Mandatory \/ p.MandatoryIf # <<>>

ByName(ps) == \A i, j \in DOMAIN ps : i < j => Rank(ps[i].Name) <= Rank(ps[j].Name)

Current == stepData.Parameters.items

\* C3: after sortStepParameters(stepData, true) every mandatory parameter (Mandatory
\* set or MandatoryIf non-empty) comes before every other parameter, and each of
\* the two groups is in non-decreasing order of Name.
C3_MandatoryFirstThenByName ==
  (lastOp = "sortMandatory") =>
    \A i, j \in DOMAIN Current :
      i < j =>
        /\ IsMandatory(Current[j]) => IsMandatory(Current[i])
        /\ (IsMandatory(Current[i]) = IsMandatory(Current[j]))
             => Rank(Current[i].Name) <= Rank(Current[j].Name)

\* A list sorted with mandatory parameters first that the sort had to reorder and
\* that holds a parameter mandatory by MandatoryIf alone and one that is not mandatory.
C3_Witness ==
  /\ lastOp = "sortMandatory"
  /\ Len(Current) = MaxLen
  /\ Current # before.items
  /\ \E i \in DOMAIN Current : ~Current[i].Mandatory /\ Current[i].MandatoryIf # <<>>
  /\ \E i \in DOMAIN Current : ~IsMandatory(Current[i])

\* The rows of a document from the row after the marker row to the row before the next marker.
Section(doc, marker, next) ==
  LET a == CHOOSE i \in DOMAIN doc : doc[i] = marker
      b == IF next = <<>> THEN Len(doc) + 1 ELSE CHOOSE i \in DOMAIN doc : doc[i] = next
  IN SubSeq(doc, a + 1, b - 1)

RECURSIVE Headings(_)
Headings(rows) ==
  IF rows = <<>> THEN <<>>
  ELSE (IF Head(rows)[1] = "#### " THEN << Head(rows)[2] >> ELSE <<>>) \o Headings(Tail(rows))

LastDoc == docs[Len(docs)].doc

\* C4: after sortStepParameters(stepData, false) the parameters are in non-decreasing
\* order of Name whatever their mandatory status; createParametersSection leaves the
\* caller's parameters in that order, and its Details section lists the parameters in
\* that order, each once, followed by the secrets in their given order.
C4_ByNameAndDetailsInThatOrder ==
  /\ (lastOp = "sortName") => ByName(Current)
  /\ (lastOp = "section") =>
       /\ ByName(Current)
       /\ Headings(Section(LastDoc, << "### Details" >>, <<>>))
            = [i \in DOMAIN Current |-> Current[i].Name]
              \o [i \in DOMAIN stepData.Secrets |-> stepData.Secrets[i].Name]

\* A section generated for parameters given out of order, a mandatory one among
\* them, and two secrets.
C4_Witness ==
  /\ lastOp = "section"
  /\ Len(Current) >= 2
  /\ Current # before.items
  /\ \E i \in DOMAIN Current : IsMandatory(Current[i])
  /\ Len(stepData.Secrets) = 2

SameKey(p, q) ==
  /\ p.Name = q.Name
  /\ (lastOp = "sortMandatory") => (IsMandatory(p) = IsMandatory(q))

PlaceBefore(p) == CHOOSE i \in DOMAIN before.items : before.items[i] = p

\* C5: sortStepParameters is a stable sort: in both modes the result is a permutation
\* of the list given, parameters that compare equal keep their order, and a nil
\* list stays nil.
C5_StablePermutation ==
  (lastOp \in {"sortMandatory", "sortName"}) =>
    /\ stepData.Parameters.nil = before.nil
    /\ Len(Current) = Len(before.items)
    /\ \A i \in DOMAIN before.items :
         Cardinality({ j \in DOMAIN Current : Current[j] = before.items[i] }) = 1
    /\ \A i, j \in DOMAIN Current :
         (i < j /\ SameKey(Current[i], Current[j]))
           => PlaceBefore(Current[i]) < PlaceBefore(Current[j])

\* A sort by name that reordered a list holding two parameters of the same name.
C5_Witness ==
  /\ lastOp = "sortName"
  /\ Current # before.items
  /\ \E i, j \in DOMAIN Current : i < j /\ Current[i].Name = Current[j].Name

OverviewRowsOf(rows, name) ==
  Cardinality({ i \in DOMAIN rows : rows[i][1] = "| [" /\ rows[i][2] = name })

StepTable(doc) == Section(doc, << "### Overview - Step" >>, << "### Overview - Execution Environment" >>)

EnvironmentTable(doc) == Section(doc, << "### Overview - Execution Environment" >>, << "### Details" >>)

\* C7: for every parameter name exactly one of parameterFurtherInfo(name, stepData,
\* false) and parameterFurtherInfo(name, stepData, true) returns no error, so
\* createParametersSection lists each parameter in exactly one of the two overview
\* tables.
C7_ExactlyOneOverviewTable ==
  /\ \A name \in Names :
       (parameterFurtherInfo(name, stepData, FALSE).err = NIL)
         # (parameterFurtherInfo(name, stepData, TRUE).err = NIL)
  /\ (lastOp = "section") =>
       \A name \in Names :
         LET n == Cardinality({ i \in DOMAIN Current : Current[i].Name = name })
             inStep == OverviewRowsOf(StepTable(LastDoc), name)
             inEnvironment == OverviewRowsOf(EnvironmentTable(LastDoc), name)
         IN \/ inStep = n /\ inEnvironment = 0
            \/ inStep = 0 /\ inEnvironment = n

\* A section whose two overview tables both list a parameter.
C7_Witness ==
  /\ lastOp = "section"
  /\ \E name \in Names : OverviewRowsOf(StepTable(LastDoc), name) > 0
  /\ \E name \in Names : OverviewRowsOf(EnvironmentTable(LastDoc), name) > 0

\* C10: createParametersSection is deterministic: two calls on equal step data return
\* the same markdown, also when a parameter's default is a map of two or more entries.
C10_Deterministic ==
  (Len(docs) = 2 /\ docs[1].given = docs[2].given) => docs[1].doc = docs[2].doc

=============================================================================
